---- MODULE Spec2Model ----
(***************************************************************************)
(* A model of the three INTERPOL notice scrapers of this repository:       *)
(*   scrape_yellow_notices.py  recursive (age, sex) slicing with a         *)
(*                             progress file,                              *)
(*   main.py                   the red-notice scraper,                     *)
(*   yellow_scraper.py         the country-by-country yellow scraper.      *)
(* Each script is a specification of its own (SpecCollect, ...); the       *)
(* variables of the other scripts stay at their initial values.            *)
(***************************************************************************)
EXTENDS Integers, Sequences, FiniteSets, TLC

VARIABLES
    \* ---- scrape_yellow_notices.py
    catalogue,           \* the API's catalogue (environment), fixed during a behaviour
    progress_file,       \* PROGRESS_FILE on disk
    output_file,         \* OUTPUT_FILE on disk
    processed_segments,  \* ProgressTracker.processed_segments
    pending,             \* collect_notices: the worklist
    seen_ids,            \* collect_notices: entity ids already hydrated
    aggregated,          \* collect_notices: the entity_id column of the records
    pc,                  \* where the script is
    runs,                \* how many times the script was started
    queries,             \* query_total calls made by the current run
    last_fetch,          \* the last fetch_segment call of the current run
    err,                 \* the RequestError __main__ caught, None when there is none
    \* ---- merge_notice, applied to one pair of payloads
    m_notice,            \* the list entry
    m_details,           \* the detail payload
    m_result,            \* what merge_notice returned, once called
    \* ---- main.py: extract_notice_info, applied to one payload
    x_notice,            \* the payload
    x_result,            \* what extract_notice_info returned, once called
    \* ---- main.py: scrape_all_notices
    all_notices,         \* the records collected
    red_page,            \* page: the page asked next
    get_full_details,    \* the parameter of scrape_all_notices
    red_pc,              \* "loop" while in the while loop, then "done"
    red_stop,            \* why the loop was left
    red_total,           \* the total of the last response that held a list
    red_received,        \* the notices of the pages received so far
    red_requested,       \* the pages asked, in order
    \* ---- yellow_scraper.py: run
    run_catalogue,       \* the API's catalogue (environment), fixed during a behaviour
    all_rows,            \* run: the rows accumulated (entity_id, url, nationality)
    run_seen_ids,        \* run: seen_ids, shared by every country
    country_no,          \* run: i, the number of countries processed
    run_pc,              \* "loop" while in the for loop, then "done"
    run_csv,             \* interpol_yellow_smart_all.csv
    run_raised,          \* the countries whose processing raised
    run_called,          \* the countries smart_fetch_country was called for, in order
    row_keys,            \* the seen_ids key under which each row of all_rows was kept
    report_file,         \* yellow_missing_report.csv
    retried,             \* auto_rattrapage: the countries fetched again, in order
    corrected_file,      \* interpol_yellow_smart_all_corrected.csv
    \* ---- scrape_yellow_notices.py: one call of http_get_json
    http_pc,             \* "try" in the loop, then "returned" or "raised"
    http_attempt,        \* attempt
    http_outcomes,       \* what each attempt made so far ended with
    http_sleeps,         \* the attempts after which the call slept
    http_result          \* the value returned, or the exception raised

collect_vars == <<catalogue, progress_file, output_file, processed_segments,
                  pending, seen_ids, aggregated, pc, runs, queries, last_fetch, err>>

merge_vars == <<m_notice, m_details, m_result>>

extract_vars == <<x_notice, x_result>>

red_vars == <<all_notices, red_page, get_full_details, red_pc, red_stop, red_total,
              red_received, red_requested>>

run_vars == <<run_catalogue, all_rows, run_seen_ids, country_no, run_pc, run_csv,
              run_raised, run_called, row_keys, report_file, retried, corrected_file>>

http_vars == <<http_pc, http_attempt, http_outcomes, http_sleeps, http_result>>

vars == <<collect_vars, merge_vars, extract_vars, red_vars, run_vars, http_vars>>

\* The variables that are not those of scrape_yellow_notices.py's run.
not_collect == <<merge_vars, extract_vars, red_vars, run_vars, http_vars>>

\* The variables that are not those of the merge_notice call.
not_merge == <<collect_vars, extract_vars, red_vars, run_vars, http_vars>>

\* The variables that are not those of the extract_notice_info call.
not_extract == <<collect_vars, merge_vars, red_vars, run_vars, http_vars>>

\* The variables that are not those of main.py's scrape_all_notices.
not_red == <<collect_vars, merge_vars, extract_vars, run_vars, http_vars>>

\* The variables that are not those of yellow_scraper.py's run.
not_run == <<collect_vars, merge_vars, extract_vars, red_vars, http_vars>>

\* The variables that are not those of a call of http_get_json.
not_http == <<collect_vars, merge_vars, extract_vars, red_vars, run_vars>>

(***************************************************************************)
(* Python values.                                                          *)
(***************************************************************************)
None == "<None>"

\* JSON values, tagged by their Python type.
Null == [t |-> "null", v |-> ""]

Str(s) == [t |-> "str", v |-> s]

List(items) == [t |-> "list", v |-> items]

Dict(d) == [t |-> "dict", v |-> d]

\* dict.get(key): None when the key is absent.
Get(container, key) ==
    IF key \in DOMAIN container THEN container[key] ELSE Null

\* dict.get(key, default)
GetOr(container, key, default) ==
    IF key \in DOMAIN container THEN container[key] ELSE default

RECURSIVE Join(_, _)
\* sep.join(strings)
Join(strings, sep) ==
    IF Len(strings) = 0 THEN ""
    ELSE IF Len(strings) = 1 THEN strings[1]
    ELSE strings[1] \o sep \o Join(Tail(strings), sep)

\* str(value)
py_str(value) ==
    CASE value.t = "null" -> "None"
      [] value.t = "str" -> value.v
      [] value.t = "list" ->
            "[" \o Join([i \in 1..Len(value.v) |->
                            IF value.v[i].t = "str" THEN "'" \o value.v[i].v \o "'"
                            ELSE "None"], ", ") \o "]"
      [] OTHER -> "{...}"

Max(a, b) == IF a >= b THEN a ELSE b

Min(a, b) == IF a <= b THEN a ELSE b

\* math.ceil(a / b) for a >= 0, b > 0
Ceil(a, b) == (a + b - 1) \div b

(***************************************************************************)
(* scrape_yellow_notices.py                                                *)
(***************************************************************************)
MAX_RESULTS_PER_PAGE == 160

SEGMENT_THRESHOLD == 320

ROOT_AGE_MIN == 0

ROOT_AGE_MAX == 120

CSV_EVERY == 200

SEX_SEGMENTS == <<"M", "F", "U">>

\* How many times the script may be started in one behaviour.
MaxRuns == 2

\* The fetch_details calls of one segment that may be the one to fail.
MaxFailIndex == 2

Segment(age_min, age_max, sex) ==
    [age_min |-> age_min, age_max |-> age_max, sex |-> sex]

RootSegment == Segment(ROOT_AGE_MIN, ROOT_AGE_MAX, None)

\* Segment.to_query: sexId only when the sex is set.
to_query(segment) ==
    IF segment.sex # None /\ segment.sex # ""
    THEN [ageMin |-> segment.age_min, ageMax |-> segment.age_max, sexId |-> segment.sex]
    ELSE [ageMin |-> segment.age_min, ageMax |-> segment.age_max]

\* A split whose upper half starts at mid: the halves overlap and the upper
\* half of a two-age segment is the segment itself.
split_same(segment) ==
    IF segment.age_min < segment.age_max
    THEN LET mid == (segment.age_min + segment.age_max) \div 2
         IN  [raised |-> FALSE,
              segments |-> <<Segment(segment.age_min, mid, segment.sex),
                             Segment(mid, segment.age_max, segment.sex)>>]
    ELSE IF segment.sex = None
    THEN [raised |-> FALSE,
          segments |-> [i \in 1..Len(SEX_SEGMENTS) |->
                           Segment(segment.age_min, segment.age_max, SEX_SEGMENTS[i])]]
    ELSE [raised |-> TRUE, segments |-> <<>>]

\* A split that gives no sub-segment, instead of raising, for a segment of
\* one age and one sex.
split_drops(segment) ==
    IF segment.age_min < segment.age_max
    THEN LET mid == (segment.age_min + segment.age_max) \div 2
         IN  [raised |-> FALSE,
              segments |-> <<Segment(segment.age_min, mid, segment.sex),
                             Segment(mid + 1, segment.age_max, segment.sex)>>]
    ELSE IF segment.sex = None
    THEN [raised |-> FALSE,
          segments |-> [i \in 1..Len(SEX_SEGMENTS) |->
                           Segment(segment.age_min, segment.age_max, SEX_SEGMENTS[i])]]
    ELSE [raised |-> FALSE, segments |-> <<>>]

\* Segment.split: the list of sub-segments, or RequestError (raised).
split(segment) ==
    IF segment.age_min < segment.age_max
    THEN LET mid == (segment.age_min + segment.age_max) \div 2
         IN  [raised |-> FALSE,
              segments |-> <<Segment(segment.age_min, mid, segment.sex),
                             Segment(mid + 1, segment.age_max, segment.sex)>>]
    ELSE IF segment.sex = None
    THEN [raised |-> FALSE,
          segments |-> [i \in 1..Len(SEX_SEGMENTS) |->
                           Segment(segment.age_min, segment.age_max, SEX_SEGMENTS[i])]]
    ELSE [raised |-> TRUE, segments |-> <<>>]

\* Segment.label
label(segment) ==
    LET sex == IF segment.sex # None /\ segment.sex # "" THEN segment.sex ELSE "*"
    IN  "age=" \o ToString(segment.age_min) \o "-" \o ToString(segment.age_max)
            \o "|sex=" \o sex

\* A tracker that holds no segment as done.
is_done_never(segment) == FALSE

\* ProgressTracker.is_done
is_done(segment) == label(segment) \in processed_segments

\* ProgressTracker._load: the labels of the file when there is one.
load_progress ==
    IF progress_file.exists THEN progress_file.processed_segments ELSE {}

\* ProgressTracker._flush: the file holds the labels marked so far.
flush(labels) == [exists |-> TRUE, processed_segments |-> labels]

\* safe_get: "" for None, the items that are not None joined by ";" for a
\* list, str(value) otherwise.
safe_get(container, key) ==
    LET value == Get(container, key)
    IN  IF value.t = "null" THEN ""
        ELSE IF value.t = "list"
        THEN Join([i \in 1..Len(SelectSeq(value.v, LAMBDA item : item.t # "null")) |->
                      py_str(SelectSeq(value.v, LAMBDA item : item.t # "null")[i])], ";")
        ELSE py_str(value)

\* a or b, on strings
Or(a, b) == IF a # "" THEN a ELSE b

OUTPUT_FIELDS ==
    <<"entity_id", "name", "forename", "birth_name", "date_of_birth",
      "place_of_birth", "country_of_birth", "nationalities", "sex", "height",
      "weight", "eyes_colors", "hairs", "distinguishing_marks",
      "father_forename", "father_name", "mother_forename", "mother_name",
      "date_of_event", "place", "country", "languages", "issuing_country",
      "countries_likely_visited", "url", "images_url", "thumbnail_url">>

OutputFieldSet == {OUTPUT_FIELDS[i] : i \in 1..Len(OUTPUT_FIELDS)}

\* The payload key merge_notice reads for an output field.
source_key(field) ==
    CASE field = "country_of_birth" -> "country_of_birth_id"
      [] field = "sex" -> "sex_id"
      [] field = "eyes_colors" -> "eyes_colors_id"
      [] field = "hairs" -> "hairs_id"
      [] field = "languages" -> "languages_spoken_ids"
      [] field = "countries_likely_visited" -> "countries_likely_to_be_visited"
      [] field = "url" -> "self"
      [] field = "images_url" -> "images"
      [] field = "thumbnail_url" -> "thumbnail"
      [] OTHER -> field

\* merge_notice without the list entry's sex_id.
FallbackFieldsNoSex == {"name", "forename", "date_of_birth", "nationalities"}

\* The fields merge_notice writes as safe_get(details, k) or safe_get(notice, k).
FallbackFields == {"name", "forename", "date_of_birth", "nationalities", "sex"}

LinkFields == {"url", "images_url", "thumbnail_url"}

\* links.get(rel, {}) then safe_get(..., "href"); raises when the value under
\* rel is not a dict (None.get).
link_href(links, rel) ==
    LET target == GetOr(links, rel, Dict([href |-> Null]))
    IN  IF target.t # "dict" THEN [raised |-> TRUE, value |-> ""]
        ELSE [raised |-> FALSE, value |-> safe_get(target.v, "href")]

\* merge_notice: the flattened record, or an exception (raised).
merge_notice(notice, details) ==
    LET given == GetOr(details, "_links", Dict([href |-> Null]))
        links == IF given.t = "dict" THEN given.v ELSE [href |-> Null]
        hrefs == [f \in LinkFields |-> link_href(links, source_key(f))]
    IN  [raised |-> \E f \in LinkFields : hrefs[f].raised,
         record |->
            [f \in OutputFieldSet |->
                IF f = "entity_id" THEN py_str(GetOr(notice, "entity_id", Str("")))
                ELSE IF f \in FallbackFields
                THEN Or(safe_get(details, source_key(f)), safe_get(notice, source_key(f)))
                ELSE IF f \in LinkFields THEN hrefs[f].value
                ELSE safe_get(details, source_key(f))]]

NoFetch == [segment |-> RootSegment, total |-> 0, pages |-> 0]

NoProgress == [exists |-> FALSE, processed_segments |-> {}]

NoFile == [exists |-> FALSE, rows |-> <<>>]

\* merge_notice was not called yet.
NotCalled == [raised |-> FALSE, record |-> <<>>, called |-> FALSE]

\* The values a payload may hold under a key.
PayloadValues ==
    {Null, Str(""), Str("a"), Str("b"), List(<<>>), List(<<Null>>),
     List(<<Str("a"), Null, Str("b")>>)}

\* The keys merge_notice reads.
PayloadKeys ==
    {"entity_id"} \cup {source_key(f) : f \in OutputFieldSet \ LinkFields}

\* The _links values: absent links, links that are dicts, a link that is null.
LinkValues ==
    {Null}
        \cup {Dict(rel :> Dict([href |-> v])) :
                rel \in {source_key(f) : f \in LinkFields}, v \in {Null, Str("u")}}
        \cup {Dict(rel :> Null) : rel \in {source_key(f) : f \in LinkFields}}

\* A payload holds "_links" and at most one other key.
Payloads ==
    {("_links" :> l) : l \in LinkValues}
        \cup {("_links" :> Null) @@ (k :> v) : k \in PayloadKeys, v \in PayloadValues}

\* record = merge_notice(notice, details)
MergeNotice ==
    /\ ~m_result.called
    /\ m_notice # <<>>
    /\ m_result' = [raised |-> merge_notice(m_notice, m_details).raised,
                    record |-> merge_notice(m_notice, m_details).record,
                    called |-> TRUE]
    /\ UNCHANGED <<m_notice, m_details>>
    /\ UNCHANGED not_merge

(***************************************************************************)
(* The API seen by scrape_yellow_notices.py: a catalogue of groups of      *)
(* notices.  A group holds n notices that the search returns for every age *)
(* range meeting lo..hi and for the sex given (or no sexId); a group with  *)
(* lo < hi is returned by both halves of a split between lo and hi.        *)
(***************************************************************************)
Group(lo, hi, sex, n, with_id) ==
    [lo |-> lo, hi |-> hi, sex |-> sex, n |-> n, with_id |-> with_id]

Catalogues ==
    { << Group(120, 120, "M", n1, TRUE),
         Group(120, 120, "F", n2, TRUE),
         Group(60, 61, "U", n3, TRUE),
         Group(0, 0, "M", n4, TRUE),
         Group(30, 30, "F", n3, FALSE),
         Group(121, 121, "M", 1, TRUE) >> :
      n1 \in {0, 161, 321}, n2 \in {0, 39, 160}, n3 \in {0, 1}, n4 \in {0, 160} }

\* A notice of the catalogue is <<group, index in the group>>.
api_entity_id(ref) == ToString(2000 + ref[1]) \o "/" \o ToString(ref[2])

\* A notice as an entry of a search result page.
list_entry(ref) ==
    IF catalogue[ref[1]].with_id
    THEN [entity_id |-> Str(api_entity_id(ref)), name |-> Str("DOE")]
    ELSE [name |-> Str("DOE")]

\* A notice as the detail endpoint gives it.
api_details(entity_id) ==
    [entity_id |-> Str(entity_id), name |-> Str("DOE"), sex_id |-> Str("M")]

api_matches(g, params) ==
    /\ catalogue[g].lo <= params.ageMax
    /\ catalogue[g].hi >= params.ageMin
    /\ "sexId" \in DOMAIN params => catalogue[g].sex = params.sexId

RECURSIVE api_refs(_, _)
\* The notices a search matches, in the API's order, from group g on.
api_refs(params, g) ==
    IF g > Len(catalogue) THEN <<>>
    ELSE (IF api_matches(g, params)
          THEN [k \in 1..catalogue[g].n |-> <<g, k>>]
          ELSE <<>>) \o api_refs(params, g + 1)

\* GET API_SEARCH_URL: one page of the matching notices and their number.
api_search(params, page, resultPerPage) ==
    LET all == api_refs(params, 1)
        first == (page - 1) * resultPerPage + 1
        last == Min(page * resultPerPage, Len(all))
    IN  [total |-> Len(all),
         notices |-> IF first > last THEN <<>>
                     ELSE [i \in 1..(last - first + 1) |-> list_entry(all[first + i - 1])]]

\* query_total: page 1 with one result per page, the total read from it.
query_total(segment) == api_search(to_query(segment), 1, 1).total

\* fetch_segment reads a single page.
total_pages_one(expected_total) == 1

\* fetch_segment: the number of pages it plans to read.
total_pages(expected_total) == Max(1, Ceil(expected_total, MAX_RESULTS_PER_PAGE))

RECURSIVE fetch_pages(_, _, _)
\* fetch_segment's loop from page on: the chunks read, in order; it stops after
\* the last planned page or after a chunk shorter than a full page.
fetch_pages(segment, page, last_page) ==
    LET chunk == api_search(to_query(segment), page, MAX_RESULTS_PER_PAGE).notices
    IN  IF page >= last_page \/ Len(chunk) < MAX_RESULTS_PER_PAGE THEN <<chunk>>
        ELSE <<chunk>> \o fetch_pages(segment, page + 1, last_page)

RECURSIVE Flatten(_)
Flatten(chunks) ==
    IF Len(chunks) = 0 THEN <<>> ELSE Head(chunks) \o Flatten(Tail(chunks))

\* fetch_segment: the notices of the pages read and how many pages were asked.
fetch_segment(segment, expected_total) ==
    LET chunks == fetch_pages(segment, 1, total_pages(expected_total))
    IN  [notices |-> Flatten(chunks), pages |-> Len(chunks)]

\* collect_notices skips only the notices without entity_id.
skip_notice_unseen(entity_id, seen) == entity_id = ""

\* collect_notices: "if not entity_id or entity_id in seen_ids: continue"
skip_notice(entity_id, seen) == entity_id = "" \/ entity_id \in seen

\* collect_notices: the body of "for notice in raw_notices" for one notice.
\* at.calls counts the fetch_details calls made for the segment; the call
\* number fail_at (0: none) raises RequestError.
hydrate_one(notice, at, fail_at) ==
    LET entity_id == py_str(GetOr(notice, "entity_id", Str("")))
        merged == merge_notice(notice, api_details(entity_id))
    IN  IF skip_notice(entity_id, at.seen_ids) THEN at
        ELSE IF at.calls + 1 = fail_at \/ merged.raised
        THEN [at EXCEPT !.raised = TRUE]
        ELSE [seen_ids |-> at.seen_ids \cup {entity_id},
              aggregated |-> Append(at.aggregated, merged.record["entity_id"]),
              calls |-> at.calls + 1,
              raised |-> FALSE]

RECURSIVE hydrate_range(_, _, _, _, _)
\* The loop over raw_notices[lo..hi], in order, ended by the first exception
\* (the range is halved to keep the evaluation shallow).
hydrate_range(raw_notices, lo, hi, at, fail_at) ==
    IF at.raised \/ lo > hi THEN at
    ELSE IF lo = hi THEN hydrate_one(raw_notices[lo], at, fail_at)
    ELSE LET mid == (lo + hi) \div 2
         IN  hydrate_range(raw_notices, mid + 1, hi,
                           hydrate_range(raw_notices, lo, mid, at, fail_at), fail_at)

\* collect_notices: the loop over the raw notices of a segment.
hydrate(raw_notices, seen, records, fail_at) ==
    hydrate_range(raw_notices, 1, Len(raw_notices),
                  [seen_ids |-> seen, aggregated |-> records, calls |-> 0,
                   raised |-> FALSE], fail_at)

\* write_csv: the file is rewritten with the records given.
write_csv(records) == [exists |-> TRUE, rows |-> records]

\* collect_notices fetches a segment of one result more than the threshold.
needs_split_late(total) == total > SEGMENT_THRESHOLD + 1

\* collect_notices: "if total > SEGMENT_THRESHOLD"
needs_split(total) == total > SEGMENT_THRESHOLD

\* The messages of RequestError: of http_get_json, and of Segment.split.
HttpFailed == "HTTP request failed after 5 attempts"

SplitFailed == "Unable to split segment further. Consider broadening the slicing strategy."

\* segment = pending.pop()
Popped == pending[Len(pending)]

Rest == SubSeq(pending, 1, Len(pending) - 1)

InLoop == pc = "loop" /\ pending # <<>>

\* python3 scrape_yellow_notices.py: run() up to the first loop test, with a
\* new ProgressTracker that loads what the progress file holds.  The script is
\* started once, and again after a run that failed.
Start ==
    /\ UNCHANGED not_collect
    /\ pc \in {"idle", "failed"}
    /\ runs < MaxRuns
    /\ processed_segments' = load_progress
    /\ pending' = <<RootSegment>>
    /\ seen_ids' = {}
    /\ aggregated' = <<>>
    /\ pc' = "loop"
    /\ runs' = runs + 1
    /\ queries' = 0
    /\ last_fetch' = NoFetch
    /\ UNCHANGED <<catalogue, progress_file, output_file>>
    /\ err' = None

\* The loop body for a segment the tracker holds as done.
SkipDone ==
    /\ UNCHANGED not_collect
    /\ InLoop
    /\ is_done(Popped)
    /\ pending' = Rest
    /\ UNCHANGED <<catalogue, progress_file, output_file, processed_segments,
                   seen_ids, aggregated, pc, runs, queries, last_fetch>>
    /\ UNCHANGED err

\* The loop body when http_get_json raises RequestError in query_total.
QueryFails ==
    /\ UNCHANGED not_collect
    /\ InLoop
    /\ ~is_done(Popped)
    /\ pending' = Rest
    /\ queries' = queries + 1
    /\ pc' = "failed"
    /\ UNCHANGED <<catalogue, progress_file, output_file, processed_segments,
                   seen_ids, aggregated, runs, last_fetch>>
    /\ err' = HttpFailed

\* The loop body for a segment whose total is 0.
MarkEmpty ==
    /\ UNCHANGED not_collect
    /\ InLoop
    /\ ~is_done(Popped)
    /\ query_total(Popped) = 0
    /\ pending' = Rest
    /\ queries' = queries + 1
    /\ processed_segments' = processed_segments \cup {label(Popped)}
    /\ progress_file' = flush(processed_segments')
    /\ UNCHANGED <<catalogue, output_file, seen_ids, aggregated, pc, runs, last_fetch>>
    /\ UNCHANGED err

\* The loop body for a segment over the threshold: its parts are pushed, or
\* split raises RequestError.
SplitSegment ==
    /\ UNCHANGED not_collect
    /\ InLoop
    /\ ~is_done(Popped)
    /\ query_total(Popped) # 0
    /\ needs_split(query_total(Popped))
    /\ queries' = queries + 1
    /\ IF split(Popped).raised
       THEN pc' = "failed" /\ pending' = Rest /\ err' = SplitFailed
       ELSE pc' = pc /\ pending' = Rest \o split(Popped).segments /\ err' = err
    /\ UNCHANGED <<catalogue, progress_file, output_file, processed_segments,
                   seen_ids, aggregated, runs, last_fetch>>

\* The loop body for a segment that is fetched, hydrated and marked done.
FetchSegment ==
    /\ UNCHANGED not_collect
    /\ InLoop
    /\ ~is_done(Popped)
    /\ query_total(Popped) # 0
    /\ ~needs_split(query_total(Popped))
    /\ LET total == query_total(Popped)
           fetched == fetch_segment(Popped, total)
           done == hydrate(fetched.notices, seen_ids, aggregated, 0)
       IN  /\ ~done.raised
           /\ last_fetch' = [segment |-> Popped, total |-> total, pages |-> fetched.pages]
           /\ seen_ids' = done.seen_ids
           /\ aggregated' = done.aggregated
           /\ output_file' = IF Len(done.aggregated) % CSV_EVERY = 0
                             THEN write_csv(done.aggregated)
                             ELSE output_file
    /\ pending' = Rest
    /\ queries' = queries + 1
    /\ processed_segments' = processed_segments \cup {label(Popped)}
    /\ progress_file' = flush(processed_segments')
    /\ UNCHANGED <<catalogue, pc, runs>>
    /\ UNCHANGED err

\* The loop body when http_get_json raises in fetch_segment, on a page it asks.
FetchPageFails ==
    /\ UNCHANGED not_collect
    /\ InLoop
    /\ ~is_done(Popped)
    /\ query_total(Popped) # 0
    /\ ~needs_split(query_total(Popped))
    /\ \E page \in 1..fetch_segment(Popped, query_total(Popped)).pages :
          last_fetch' = [segment |-> Popped, total |-> query_total(Popped), pages |-> page]
    /\ pending' = Rest
    /\ queries' = queries + 1
    /\ pc' = "failed"
    /\ UNCHANGED <<catalogue, progress_file, output_file, processed_segments,
                   seen_ids, aggregated, runs>>
    /\ err' = HttpFailed

\* The loop body when http_get_json raises in a fetch_details call: the
\* records hydrated before it are in aggregated, the segment is not marked.
DetailFails ==
    /\ UNCHANGED not_collect
    /\ InLoop
    /\ ~is_done(Popped)
    /\ query_total(Popped) # 0
    /\ ~needs_split(query_total(Popped))
    /\ \E fail_at \in 1..MaxFailIndex :
          LET total == query_total(Popped)
              fetched == fetch_segment(Popped, total)
              done == hydrate(fetched.notices, seen_ids, aggregated, fail_at)
          IN  /\ done.raised
              /\ last_fetch' = [segment |-> Popped, total |-> total, pages |-> fetched.pages]
              /\ seen_ids' = done.seen_ids
              /\ aggregated' = done.aggregated
    /\ pending' = Rest
    /\ queries' = queries + 1
    /\ pc' = "failed"
    /\ UNCHANGED <<catalogue, progress_file, output_file, processed_segments, runs>>
    /\ err' = HttpFailed

\* pending is empty: collect_notices returns aggregated, run writes it to the
\* CSV file and unlinks the progress file.
Finish ==
    /\ UNCHANGED not_collect
    /\ pc = "loop"
    /\ pending = <<>>
    /\ output_file' = write_csv(aggregated)
    /\ progress_file' = NoProgress
    /\ pc' = "finished"
    /\ UNCHANGED <<catalogue, processed_segments, pending, seen_ids, aggregated,
                   runs, queries, last_fetch>>
    /\ UNCHANGED err

(***************************************************************************)
(* main.py                                                                 *)
(***************************************************************************)
\* bool(value)
truthy(value) ==
    CASE value.t = "null" -> FALSE
      [] value.t = "str" -> value.v # ""
      [] value.t = "list" -> value.v # <<>>
      [] OTHER -> TRUE

\* extract_notice_info.safe_join
safe_join(data) ==
    IF data.t = "list"
    THEN Join([i \in 1..Len(data.v) |-> py_str(data.v[i])], ", ")
    ELSE IF truthy(data) THEN py_str(data)
    ELSE "N/A"

\* The fields of a red-notice record and the payload key of each.
RedFields ==
    {"entity_id", "name", "forename", "date_of_birth", "nationalities",
     "place_of_birth", "country_of_birth", "sex", "weight", "height",
     "eyes_colors", "hairs_colors"}

\* The fields extract_notice_info passes through safe_join.
JoinedFields == {"nationalities", "eyes_colors", "hairs_colors"}

red_key(field) ==
    CASE field = "country_of_birth" -> "country_of_birth_id"
      [] field = "sex" -> "sex_id"
      [] field = "eyes_colors" -> "eyes_colors_id"
      [] field = "hairs_colors" -> "hairs_id"
      [] OTHER -> field

\* extract_notice_info: safe_join(notice.get(key)) for the joined fields,
\* notice.get(key, 'N/A') for the others.
extract_notice_info(notice) ==
    [f \in RedFields |->
        IF f \in JoinedFields THEN Str(safe_join(Get(notice, red_key(f))))
        ELSE GetOr(notice, red_key(f), Str("N/A"))]

NotExtracted == [called |-> FALSE, record |-> <<>>]

\* notice_info = self.extract_notice_info(notice)
ExtractNoticeInfo ==
    /\ ~x_result.called
    /\ x_notice # <<>>
    /\ x_result' = [called |-> TRUE, record |-> extract_notice_info(x_notice)]
    /\ UNCHANGED x_notice
    /\ UNCHANGED not_extract

\* How many pages scrape_all_notices may ask in a behaviour.
MaxPages == 2

\* The notices the red API may list.
RedNotices ==
    {[entity_id |-> Str("2019/1"), name |-> Str("DOE")],
     [entity_id |-> Str("2020/2"), name |-> Str("ROE")],
     [name |-> Str("NEMO")]}

\* The lists of notices of a page.
RedPages ==
    {<<>>} \cup {<<a>> : a \in RedNotices} \cup {<<a, b>> : a, b \in RedNotices}

\* The totals a response may report.
RedTotals == {0, 1, 3, 5}

\* get_notice_detail: the detail payload of a notice.
red_detail(notice) == notice @@ [sex_id |-> Null, weight |-> Str("80")]

\* scrape_all_notices: the record of one notice of a page; detailed tells
\* whether get_notice_detail returned a payload.
notice_info(notice, detailed) ==
    IF get_full_details /\ GetOr(notice, "entity_id", Str("N/A")) # Str("N/A")
    THEN IF detailed THEN extract_notice_info(red_detail(notice))
         ELSE extract_notice_info(notice)
    ELSE extract_notice_info(notice)

\* scrape_all_notices: the loop over the notices of a page.
page_records(notices, detailed) ==
    [i \in 1..Len(notices) |-> notice_info(notices[i], detailed[i])]

\* scrape_all_notices goes on after the total was reached exactly.
reached_strictly(count, total) == count > total

\* scrape_all_notices: "if len(all_notices) >= total: break"
reached(count, total) == count >= total

\* scrape_all_notices: all_notices.append(notice_info) for each notice.
append_records(records, more) == records \o more

RedLoop == red_pc = "loop" /\ red_page <= MaxPages

\* get_notices returns None (the request failed): the loop is left.
PageFails ==
    /\ RedLoop
    /\ red_requested' = Append(red_requested, red_page)
    /\ red_pc' = "done"
    /\ red_stop' = "failed"
    /\ UNCHANGED <<all_notices, red_page, get_full_details, red_total, red_received>>
    /\ UNCHANGED not_red

\* The response holds no '_embedded' / 'notices': the loop is left.
PageWithoutList ==
    /\ RedLoop
    /\ red_requested' = Append(red_requested, red_page)
    /\ red_pc' = "done"
    /\ red_stop' = "nolist"
    /\ UNCHANGED <<all_notices, red_page, get_full_details, red_total, red_received>>
    /\ UNCHANGED not_red

\* The response holds an empty list: the loop is left.
PageEmpty ==
    /\ RedLoop
    /\ \E total \in RedTotals : red_total' = total
    /\ red_requested' = Append(red_requested, red_page)
    /\ red_pc' = "done"
    /\ red_stop' = "empty"
    /\ UNCHANGED <<all_notices, red_page, get_full_details, red_received>>
    /\ UNCHANGED not_red

\* The response holds notices: one record per notice is appended, then the
\* loop is left when the total is reached, else the next page is asked.
PageOfNotices ==
    /\ RedLoop
    /\ \E notices \in RedPages \ {<<>>}, total \in RedTotals :
         \E detailed \in [1..Len(notices) -> BOOLEAN] :
            /\ all_notices' = append_records(all_notices, page_records(notices, detailed))
            /\ red_received' = red_received + Len(notices)
            /\ red_total' = total
            /\ IF reached(Len(all_notices'), total)
               THEN red_pc' = "done" /\ red_stop' = "reached" /\ red_page' = red_page
               ELSE red_pc' = "loop" /\ red_stop' = "none" /\ red_page' = red_page + 1
    /\ red_requested' = Append(red_requested, red_page)
    /\ UNCHANGED get_full_details
    /\ UNCHANGED not_red

(***************************************************************************)
(* yellow_scraper.py                                                       *)
(***************************************************************************)
RESULTS_PER_PAGE == 160

\* smart_fetch_country: the total up to which a filter is fetched as it is.
COUNTRY_LIMIT == 160

\* range(0, 120): the last age_min of the age slices.
LAST_AGE_MIN == 119

\* run: a checkpoint is written every CHECKPOINT_EVERY countries.
CHECKPOINT_EVERY == 5

\* An age filter that is None.
NoAge == -1

Letters ==
    <<"A", "B", "C", "D", "E", "F", "G", "H", "I", "J", "K", "L", "M",
      "N", "O", "P", "Q", "R", "S", "T", "U", "V", "W", "X", "Y", "Z">>

\* run: len(countries), the product of the letters with themselves.
CountryCount == Len(Letters) * Len(Letters)

\* The codes with the first letter changing fastest.
country_code_by_column(i) ==
    Letters[((i - 1) % Len(Letters)) + 1] \o Letters[((i - 1) \div Len(Letters)) + 1]

\* run: countries[i - 1], in the order of product(ascii_uppercase, repeat=2).
country_code(i) ==
    Letters[((i - 1) \div Len(Letters)) + 1] \o Letters[((i - 1) % Len(Letters)) + 1]

\* The query parameters fetch_page_with_filters sends: a filter that is None
\* (or empty) is left out.
filters(nationality, age_min, age_max, sex_id, country_of_birth) ==
    [nationality |-> IF nationality = "" THEN None ELSE nationality,
     ageMin |-> age_min,
     ageMax |-> age_max,
     sexId |-> IF sex_id = "" THEN None ELSE sex_id,
     country_of_birth_id |-> IF country_of_birth = "" THEN None ELSE country_of_birth]

(***************************************************************************)
(* The API seen by yellow_scraper.py: groups of n notices with the same    *)
(* nationalities, country of birth, sex and age.  ident tells what a       *)
(* notice of the group carries: an entity_id ("id"), only a self link      *)
(* ("url"), or neither ("none"); a group with broken = TRUE lists its      *)
(* notices with "nationalities": null.                                     *)
(***************************************************************************)
RunGroup(nationalities, birth, sex, age, n, ident, broken) ==
    [nationalities |-> nationalities, birth |-> birth, sex |-> sex, age |-> age,
     n |-> n, ident |-> ident, broken |-> broken]

\* The catalogue with the given numbers of notices in its groups.
RunCatalogue(n1, n2, n3, n4) ==
    << RunGroup({"ZY"}, "AA", "M", 30, n1, "id", FALSE),
       RunGroup({"AB", "ZY"}, "AB", "F", 40, n2, "id", FALSE),
       RunGroup({"AC"}, "AC", "M", 50, n3, "url", FALSE),
       RunGroup({"AD"}, "AD", "F", 60, n3, "none", FALSE),
       RunGroup({"AE"}, "AF", "M", 70, n4, "id", TRUE),
       RunGroup({"NA"}, "NA", "F", 20, n2, "id", FALSE) >>

\* The catalogues: small and middle-sized countries, and one with a country
\* of some two thousand notices.
RunCatalogues ==
    { RunCatalogue(n1, n2, n3, n4) :
        n1 \in {0, 1, 161}, n2 \in {0, 1}, n3 \in {0, 2}, n4 \in {0, 1} }
    \cup { RunCatalogue(2001, 1, 0, 0) }

\* A notice of the catalogue, <<group, index>>, as an entry of a result page.
run_item(ref) ==
    LET g == run_catalogue[ref[1]]
        number == ToString(3000 + ref[1]) \o "/" \o ToString(ref[2])
    IN  [name |-> Str("NEMO" \o ToString(ref[2])),
         nationalities |-> IF g.broken THEN Null
                           ELSE List(<<Str(CHOOSE c \in g.nationalities : TRUE)>>)]
        @@ (IF g.ident = "id" THEN [entity_id |-> Str(number)] ELSE <<>>)
        @@ (IF g.ident \in {"id", "url"}
            THEN [_links |-> Dict([self |-> Dict([href |-> Str("https://ws/" \o number)])])]
            ELSE <<>>)

run_matches(g, params) ==
    /\ params.nationality # None => params.nationality \in run_catalogue[g].nationalities
    /\ params.ageMin # NoAge => run_catalogue[g].age >= params.ageMin
    /\ params.ageMax # NoAge => run_catalogue[g].age <= params.ageMax
    /\ params.sexId # None => run_catalogue[g].sex = params.sexId
    /\ params.country_of_birth_id # None => run_catalogue[g].birth = params.country_of_birth_id

RECURSIVE run_refs(_, _)
\* The notices a search matches, in the API's order, from group g on.
run_refs(params, g) ==
    IF g > Len(run_catalogue) THEN <<>>
    ELSE (IF run_matches(g, params)
          THEN [k \in 1..run_catalogue[g].n |-> <<g, k>>]
          ELSE <<>>) \o run_refs(params, g + 1)

\* fetch_page_with_filters: GET API_URL, a page of RESULTS_PER_PAGE notices
\* and the number of notices the filters match.
fetch_page_with_filters(page_no, params) ==
    LET all == run_refs(params, 1)
        first == (page_no - 1) * RESULTS_PER_PAGE + 1
        last == Min(page_no * RESULTS_PER_PAGE, Len(all))
    IN  [total |-> Len(all),
         notices |-> IF first > last THEN <<>>
                     ELSE [i \in 1..(last - first + 1) |-> run_item(all[first + i - 1])]]

\* get_total_with_filters: the total of page 1, or the length of its list
\* when the total is not positive.
get_total_with_filters(params) ==
    LET data == fetch_page_with_filters(1, params)
    IN  IF data.total <= 0 THEN Len(data.notices) ELSE data.total

\* str.strip(), on the ids of the catalogue: only a blank id changes.
strip(s) == IF s \in {" ", "  "} THEN "" ELSE s

\* x or y, on JSON values
OrValue(x, y) == IF truthy(x) THEN x ELSE y

\* str(value) of a filter: "None" for None
filter_str(value) == IF value = None THEN "None" ELSE value

\* fetch_all_pages_for_filters: eid, nurl and key of an item; touching _links
\* raises when it is not a dict.
item_key(item, params, page_no) ==
    LET eid == strip(py_str(OrValue(OrValue(Get(item, "entity_id"), Get(item, "id")),
                                    Str(""))))
        links == GetOr(item, "_links", Dict([none |-> Null]))
        self == IF links.t = "dict" THEN GetOr(links.v, "self", Dict([none |-> Null]))
                ELSE Null
        nurl == IF self.t = "dict" THEN py_str(GetOr(self.v, "href", Str(""))) ELSE ""
        composite == filter_str(params.nationality) \o "|" \o filter_str(params.sexId)
                        \o "|" \o (IF params.ageMin = NoAge THEN "None"
                                   ELSE ToString(params.ageMin))
                        \o "|" \o ToString(page_no)
                        \o "|" \o py_str(GetOr(item, "name", Str("")))
    IN  [raised |-> self.t # "dict",
         eid |-> eid,
         nurl |-> nurl,
         key |-> Or(eid, Or(nurl, composite))]

\* fetch_all_pages_for_filters: the row of an item; ";".join raises on a
\* nationalities that is null.
item_row(item, params, keyed) ==
    [raised |-> GetOr(item, "nationalities", List(<<>>)).t # "list",
     row |-> [entity_id |-> keyed.eid,
              url |-> keyed.nurl,
              nationality |-> IF params.nationality = None THEN "" ELSE params.nationality]]

\* fetch_all_pages_for_filters keeps every item, seen or not.
is_seen_never(key, seen) == FALSE

\* fetch_all_pages_for_filters: "if key in seen_ids: continue"
is_seen(key, seen) == key \in seen

\* fetch_all_pages_for_filters: the body of "for item in iter_notices(data)".
\* at = [rows, seen_ids, raised, keys], keys holding the key of each row; the
\* key is added to seen_ids before the row is built.
fetch_item(item, params, page_no, at) ==
    LET keyed == item_key(item, params, page_no)
        built == item_row(item, params, keyed)
    IN  IF keyed.raised THEN [at EXCEPT !.raised = TRUE]
        ELSE IF is_seen(keyed.key, at.seen_ids) THEN at
        ELSE IF built.raised
        THEN [at EXCEPT !.seen_ids = @ \cup {keyed.key}, !.raised = TRUE]
        ELSE [at EXCEPT !.seen_ids = @ \cup {keyed.key},
                        !.rows = Append(@, built.row),
                        !.keys = Append(@, keyed.key)]

RECURSIVE page_items(_, _, _)
\* fetch_all_pages_for_filters: the items of the pages page_no..num_pages in
\* the order of the two loops, each with the filters and the page it is from.
page_items(params, page_no, num_pages) ==
    IF page_no > num_pages THEN <<>>
    ELSE LET items == fetch_page_with_filters(page_no, params).notices
         IN  [i \in 1..Len(items) |->
                 [item |-> items[i], params |-> params, page_no |-> page_no]]
             \o page_items(params, page_no + 1, num_pages)

\* fetch_all_pages_for_filters: the items it goes through, none when the
\* total is 0.
fetch_all_pages_for_filters(params) ==
    LET total == get_total_with_filters(params)
    IN  IF total = 0 THEN <<>>
        ELSE page_items(params, 1, Ceil(total, RESULTS_PER_PAGE))

\* smart_fetch_country: the age slices of a sex that are fetched, those whose
\* total is positive, for age_min in range(0, 120).
age_slices(country, sex_id) ==
    LET slice(age_min) == filters(country, age_min, age_min + 1, sex_id, "")
        positive(params) == get_total_with_filters(params) > 0
    IN  SelectSeq([a \in 1..(LAST_AGE_MIN + 1) |-> slice(a - 1)], positive)

\* smart_fetch_country: the filters fetched for a sex: the sex as it is up to
\* COUNTRY_LIMIT notices, its age slices above.
sex_filters(country, sex_id) ==
    LET params == filters(country, NoAge, NoAge, sex_id, "")
        total_sex == get_total_with_filters(params)
    IN  IF total_sex = 0 THEN <<>>
        ELSE IF total_sex <= COUNTRY_LIMIT THEN <<params>>
        ELSE age_slices(country, sex_id)

\* smart_fetch_country: the filters it fetches, in order: by nationality, or
\* by sex 'M', 'F', 'U' and age slice, and last by country of birth.
country_filters(country) ==
    LET by_country == filters(country, NoAge, NoAge, "", "")
        by_birth == filters("", NoAge, NoAge, "", country)
        total_birth_country == get_total_with_filters(by_birth)
    IN  (IF get_total_with_filters(by_country) <= COUNTRY_LIMIT
         THEN <<by_country>>
         ELSE sex_filters(country, "M") \o sex_filters(country, "F")
                \o sex_filters(country, "U"))
        \o (IF total_birth_country > 0 /\ total_birth_country <= COUNTRY_LIMIT
            THEN <<by_birth>>
            ELSE <<>>)

RECURSIVE country_items(_, _, _)
\* The items smart_fetch_country goes through for the filters lo..hi.
country_items(fetched, lo, hi) ==
    IF lo > hi THEN <<>>
    ELSE IF lo = hi THEN fetch_all_pages_for_filters(fetched[lo])
    ELSE country_items(fetched, lo, (lo + hi) \div 2)
            \o country_items(fetched, (lo + hi) \div 2 + 1, hi)

RECURSIVE fetch_items(_, _, _, _)
\* The loop bodies for the items lo..hi, in order, ended by the first
\* exception (the range is halved to keep the evaluation shallow).
fetch_items(items, lo, hi, at) ==
    IF at.raised \/ lo > hi THEN at
    ELSE IF lo = hi
    THEN fetch_item(items[lo].item, items[lo].params, items[lo].page_no, at)
    ELSE LET mid == (lo + hi) \div 2
             left == fetch_items(items, lo, mid, at)
         IN  fetch_items(items, mid + 1, hi, left)

\* smart_fetch_country: the rows of the country, the seen_ids as the call
\* leaves them, and whether it raised.
smart_fetch_country(country, seen) ==
    LET fetched == country_filters(country)
        items == country_items(fetched, 1, Len(fetched))
    IN  fetch_items(items, 1, Len(items),
                    [rows |-> <<>>, seen_ids |-> seen, raised |-> FALSE, keys |-> <<>>])

NoCsv == [exists |-> FALSE, rows |-> <<>>]

\* run: the checkpoint written after every fifth country.
checkpoint(i, rows, file) ==
    IF i % CHECKPOINT_EVERY = 0 THEN [exists |-> TRUE, rows |-> rows] ELSE file

RunLoop == run_pc = "loop" /\ country_no < CountryCount

\* run: the loop body for a country whose smart_fetch_country returns.
CountryFetched ==
    /\ RunLoop
    /\ LET fetched == smart_fetch_country(country_code(country_no + 1), run_seen_ids)
       IN  /\ ~fetched.raised
           /\ all_rows' = all_rows \o fetched.rows
           /\ row_keys' = row_keys \o fetched.keys
           /\ run_seen_ids' = fetched.seen_ids
    /\ country_no' = country_no + 1
    /\ run_called' = Append(run_called, country_code(country_no'))
    /\ run_csv' = checkpoint(country_no', all_rows', run_csv)
    /\ UNCHANGED <<run_catalogue, run_pc, run_raised, report_file, retried, corrected_file>>
    /\ UNCHANGED not_run

\* run: the loop body for a country whose smart_fetch_country raises: the
\* exception is printed, the rows of the country are dropped, and the keys
\* the call added to seen_ids stay.
CountryRaised ==
    /\ RunLoop
    /\ LET fetched == smart_fetch_country(country_code(country_no + 1), run_seen_ids)
       IN  /\ fetched.raised
           /\ run_seen_ids' = fetched.seen_ids
    /\ country_no' = country_no + 1
    /\ run_called' = Append(run_called, country_code(country_no'))
    /\ run_raised' = run_raised \cup {country_code(country_no')}
    /\ run_csv' = checkpoint(country_no', all_rows, run_csv)
    /\ UNCHANGED <<run_catalogue, all_rows, row_keys, run_pc, report_file, retried,
                   corrected_file>>
    /\ UNCHANGED not_run

\* run: after the loop the CSV file is written with all the rows.
FinalSave ==
    /\ run_pc = "loop"
    /\ country_no = CountryCount
    /\ run_csv' = [exists |-> TRUE, rows |-> all_rows]
    /\ run_pc' = "done"
    /\ UNCHANGED <<run_catalogue, all_rows, run_seen_ids, country_no, run_raised,
                   run_called, row_keys, report_file, retried, corrected_file>>
    /\ UNCHANGED not_run

\* auto_rattrapage: threshold, the coverage under which a country is retried.
THRESHOLD == 100

\* pandas: a missing cell.
NaN == "<NaN>"

\* pandas.read_csv: a cell read from a CSV file; the empty cell and the cell
\* "NA" are read as missing.
read_cell(cell) == IF cell \in {"", "NA"} THEN NaN ELSE cell

\* pandas.read_csv: the rows of a file as a data frame.
read_csv(file) ==
    [i \in 1..Len(file.rows) |->
        [field \in DOMAIN file.rows[i] |-> read_cell(file.rows[i][field])]]

\* verify_scraping: sorted(df["nationality"].dropna().unique()); the
\* nationalities of the file are country codes, sorted as run goes through them.
verify_countries(df) ==
    LET present == {df[i].nationality : i \in 1..Len(df)} \ {NaN}
        listed(code) == code \in present
    IN  SelectSeq([i \in 1..CountryCount |-> country_code(i)], listed)

\* verify_scraping: len(df[df["nationality"] == country])
local_count(df, country) ==
    Cardinality({i \in 1..Len(df) : df[i].nationality = country})

\* verify_scraping: int(data.get("total", 0)) of the search by nationality.
api_total(country) ==
    fetch_page_with_filters(1, filters(country, NoAge, NoAge, "", "")).total

\* verify_scraping: percent, in tenths of a percent: 0 when api_total is 0,
\* else round(local_count / api_total * 100, 1).  A quotient exactly half
\* way between two tenths goes to either, as the float product falls.
coverage(count, total) ==
    IF total = 0 THEN {0}
    ELSE LET q == (count * 1000) \div total
             r == (count * 1000) % total
         IN  IF 2 * r > total THEN {q + 1}
             ELSE IF 2 * r < total THEN {q}
             ELSE {q, q + 1}

\* verify_scraping: the report rows a country can get.
report_rows(df, country) ==
    { [country |-> country,
       total_api |-> api_total(country),
       local_count |-> local_count(df, country),
       missing |-> Max(api_total(country) - local_count(df, country), 0),
       coverage |-> percent] :
      percent \in coverage(local_count(df, country), api_total(country)) }

RECURSIVE reports(_, _, _)
\* verify_scraping: the reports it can build for the countries from i on.
reports(df, countries, i) ==
    IF i > Len(countries) THEN {<<>>}
    ELSE { <<row>> \o rest : row \in report_rows(df, countries[i]),
                              rest \in reports(df, countries, i + 1) }

\* auto_rattrapage: df["coverage_%"] < threshold
is_missing(row) == row.coverage < THRESHOLD * 10

\* auto_rattrapage: missing_countries
missing_countries(report) ==
    LET kept == SelectSeq(report, is_missing)
    IN  [i \in 1..Len(kept) |-> kept[i].country]

RECURSIVE retry_countries(_, _, _)
\* auto_rattrapage: "for country in missing_countries", from i on; done =
\* [rows, seen_ids].  A country whose fetch raises adds no row, and the keys
\* it added to seen_ids stay.
retry_countries(countries, i, done) ==
    IF i > Len(countries) THEN done
    ELSE LET items == fetch_all_pages_for_filters(
                          filters(countries[i], NoAge, NoAge, "", ""))
             got == fetch_items(items, 1, Len(items),
                        [rows |-> <<>>, seen_ids |-> done.seen_ids,
                         raised |-> FALSE, keys |-> <<>>])
         IN  retry_countries(countries, i + 1,
                 [rows |-> IF got.raised THEN done.rows ELSE done.rows \o got.rows,
                  seen_ids |-> got.seen_ids])

RECURSIVE drop_from(_, _, _, _)
\* drop_duplicates(subset=["entity_id", "url"]) over the rows lo..hi: kept =
\* [rows, pairs], the first row of every (entity_id, url) is kept.  (kept is
\* looked at first, which keeps the evaluation shallow: it holds rows from
\* before lo only.)
drop_from(rows, lo, hi, kept) ==
    IF lo > hi \/ Len(kept.rows) >= lo THEN kept
    ELSE IF lo = hi
    THEN LET pair == <<rows[lo].entity_id, rows[lo].url>>
         IN  IF pair \in kept.pairs THEN kept
             ELSE [rows |-> Append(kept.rows, rows[lo]),
                   pairs |-> kept.pairs \cup {pair}]
    ELSE LET mid == (lo + hi) \div 2
             left == drop_from(rows, lo, mid, kept)
         IN  drop_from(rows, mid + 1, hi, left)

drop_duplicates(rows) ==
    drop_from(rows, 1, Len(rows), [rows |-> <<>>, pairs |-> {}]).rows

\* verify_scraping: the report of the countries of the CSV file is written.
VerifyScraping ==
    /\ run_pc = "done"
    /\ LET df == read_csv(run_csv)
       IN  \E report \in reports(df, verify_countries(df), 1) :
               report_file' = [exists |-> TRUE, rows |-> report]
    /\ run_pc' = "verified"
    /\ UNCHANGED <<run_catalogue, all_rows, run_seen_ids, country_no, run_csv,
                   run_raised, run_called, row_keys, retried, corrected_file>>
    /\ UNCHANGED not_run

\* auto_rattrapage on a report without rows: the file written from an empty
\* data frame has no column, and reading "coverage_%" raises.
ReportUnreadable ==
    /\ run_pc = "verified"
    /\ report_file.rows = <<>>
    /\ run_pc' = "crashed"
    /\ UNCHANGED <<run_catalogue, all_rows, run_seen_ids, country_no, run_csv,
                   run_raised, run_called, row_keys, report_file, retried,
                   corrected_file>>
    /\ UNCHANGED not_run

\* auto_rattrapage: no country of the report is under the threshold.
AllComplete ==
    /\ run_pc = "verified"
    /\ report_file.rows # <<>>
    /\ missing_countries(report_file.rows) = <<>>
    /\ run_pc' = "retried"
    /\ UNCHANGED <<run_catalogue, all_rows, run_seen_ids, country_no, run_csv,
                   run_raised, run_called, row_keys, report_file, retried,
                   corrected_file>>
    /\ UNCHANGED not_run

\* auto_rattrapage: the countries under the threshold are fetched again
\* without sex or age filter, and the rows got are merged with the CSV file.
AutoRattrapage ==
    /\ run_pc = "verified"
    /\ missing_countries(report_file.rows) # <<>>
    /\ retried' = missing_countries(report_file.rows)
    /\ LET completed_rows == retry_countries(retried', 1,
                                 [rows |-> <<>>, seen_ids |-> {}]).rows
       IN  corrected_file' =
               IF completed_rows = <<>> THEN corrected_file
               ELSE [exists |-> TRUE,
                     rows |-> drop_duplicates(read_csv(run_csv) \o completed_rows)]
    /\ run_pc' = "retried"
    /\ UNCHANGED <<run_catalogue, all_rows, run_seen_ids, country_no, run_csv,
                   run_raised, run_called, row_keys, report_file>>
    /\ UNCHANGED not_run

(***************************************************************************)
(* scrape_yellow_notices.py: http_get_json                                 *)
(***************************************************************************)
RETRY_LIMIT == 5

\* What an attempt ends with: a response whose body is one of Bodies, an
\* HTTPError or URLError of urlopen, or an exception of another class.
Bodies == {"{}", "{\"total\": 3}", "[]", "<html>", ""}

HttpErrors == {"HTTPError", "URLError"}

OtherErrors == {"TimeoutError"}

\* json.loads on the bodies: the value, or JSONDecodeError (raised).
json_loads(body) ==
    CASE body = "{}" -> [raised |-> FALSE, value |-> Dict(<<>>)]
      [] body = "{\"total\": 3}" -> [raised |-> FALSE, value |-> Dict([total |-> 3])]
      [] body = "[]" -> [raised |-> FALSE, value |-> List(<<>>)]
      [] OTHER -> [raised |-> TRUE, value |-> Null]

NoResult == [kind |-> "none", value |-> Null]

\* The for loop goes on after the last attempt as well.
is_last_never(attempt) == FALSE

\* http_get_json: "if attempt == RETRY_LIMIT"
is_last(attempt) == attempt = RETRY_LIMIT

HttpTrying == http_pc = "try" /\ http_attempt <= RETRY_LIMIT

\* An attempt whose response body is valid JSON: the parsed body is returned.
AttemptReturns ==
    /\ HttpTrying
    /\ \E body \in Bodies :
          /\ ~json_loads(body).raised
          /\ http_outcomes' = Append(http_outcomes, body)
          /\ http_result' = [kind |-> "value", value |-> json_loads(body).value]
    /\ http_pc' = "returned"
    /\ UNCHANGED <<http_attempt, http_sleeps>>
    /\ UNCHANGED not_http

\* An attempt whose response body is not valid JSON: RequestError at once.
AttemptBadJson ==
    /\ HttpTrying
    /\ \E body \in Bodies :
          /\ json_loads(body).raised
          /\ http_outcomes' = Append(http_outcomes, body)
    /\ http_result' = [kind |-> "raised", value |-> Str("RequestError")]
    /\ http_pc' = "raised"
    /\ UNCHANGED <<http_attempt, http_sleeps>>
    /\ UNCHANGED not_http

\* An attempt that ends with HTTPError or URLError: RequestError on the last
\* attempt, else a sleep and the next attempt; the line after the loop
\* returns the empty dict.
AttemptFails ==
    /\ HttpTrying
    /\ \E error \in HttpErrors : http_outcomes' = Append(http_outcomes, error)
    /\ IF is_last(http_attempt)
       THEN /\ http_result' = [kind |-> "raised", value |-> Str("RequestError")]
            /\ http_pc' = "raised"
            /\ UNCHANGED <<http_attempt, http_sleeps>>
       ELSE /\ http_sleeps' = Append(http_sleeps, http_attempt)
            /\ http_attempt' = http_attempt + 1
            /\ IF http_attempt' > RETRY_LIMIT
               THEN /\ http_result' = [kind |-> "value", value |-> Dict(<<>>)]
                    /\ http_pc' = "returned"
               ELSE UNCHANGED <<http_result, http_pc>>
    /\ UNCHANGED not_http

\* An attempt that ends with an exception that is neither HTTPError, URLError
\* nor JSONDecodeError: it leaves http_get_json as it is.
AttemptOtherError ==
    /\ HttpTrying
    /\ \E error \in OtherErrors :
          /\ http_outcomes' = Append(http_outcomes, error)
          /\ http_result' = [kind |-> "raised", value |-> Str(error)]
    /\ http_pc' = "raised"
    /\ UNCHANGED <<http_attempt, http_sleeps>>
    /\ UNCHANGED not_http

(***************************************************************************)
(* Specifications                                                          *)
(***************************************************************************)

\* The variables of scrape_yellow_notices.py's run when another script runs.
CollectIdle ==
    /\ catalogue = <<>>
    /\ progress_file = NoProgress
    /\ output_file = NoFile
    /\ processed_segments = {}
    /\ pending = <<>>
    /\ seen_ids = {}
    /\ aggregated = <<>>
    /\ pc = "off"
    /\ runs = 0
    /\ queries = 0
    /\ last_fetch = NoFetch
    /\ err = None

MergeIdle ==
    /\ m_notice = <<>>
    /\ m_details = <<>>
    /\ m_result = NotCalled

ExtractIdle ==
    /\ x_notice = <<>>
    /\ x_result = NotExtracted

RedIdle ==
    /\ all_notices = <<>>
    /\ red_page = 1
    /\ get_full_details = TRUE
    /\ red_pc = "off"
    /\ red_stop = "none"
    /\ red_total = 0
    /\ red_received = 0
    /\ red_requested = <<>>

RunIdle ==
    /\ run_catalogue = <<>>
    /\ all_rows = <<>>
    /\ run_seen_ids = {}
    /\ country_no = 0
    /\ run_pc = "off"
    /\ run_csv = NoCsv
    /\ run_raised = {}
    /\ run_called = <<>>
    /\ row_keys = <<>>
    /\ report_file = NoCsv
    /\ retried = <<>>
    /\ corrected_file = NoCsv

HttpIdle ==
    /\ http_pc = "off"
    /\ http_attempt = 0
    /\ http_outcomes = <<>>
    /\ http_sleeps = <<>>
    /\ http_result = NoResult

InitHttp ==
    /\ http_pc = "try"
    /\ http_attempt = 1
    /\ http_outcomes = <<>>
    /\ http_sleeps = <<>>
    /\ http_result = NoResult
    /\ CollectIdle
    /\ MergeIdle
    /\ ExtractIdle
    /\ RedIdle
    /\ RunIdle

NextHttp == AttemptReturns \/ AttemptBadJson \/ AttemptFails \/ AttemptOtherError

SpecHttp == InitHttp /\ [][NextHttp]_vars

InitCollect ==
    /\ HttpIdle
    /\ RunIdle
    /\ MergeIdle
    /\ ExtractIdle
    /\ RedIdle
    /\ catalogue \in Catalogues
    /\ progress_file = NoProgress
    /\ output_file = NoFile
    /\ processed_segments = {}
    /\ pending = <<>>
    /\ seen_ids = {}
    /\ aggregated = <<>>
    /\ pc = "idle"
    /\ runs = 0
    /\ queries = 0
    /\ last_fetch = NoFetch
    /\ err = None

\* A step of the running script.
CollectStep ==
    \/ SkipDone
    \/ QueryFails
    \/ MarkEmpty
    \/ SplitSegment
    \/ FetchSegment
    \/ FetchPageFails
    \/ DetailFails
    \/ Finish

NextCollect == Start \/ CollectStep

SpecCollect == InitCollect /\ [][NextCollect]_vars

\* The script, once started, keeps running until it returns or raises.
FairCollect == SpecCollect /\ WF_vars(CollectStep)

\* The pairs merge_notice is applied to: both payloads hold the same key, or
\* one of them holds links.
InitMerge ==
    /\ HttpIdle
    /\ RunIdle
    /\ m_notice \in Payloads
    /\ m_details \in Payloads
    /\ DOMAIN m_notice = DOMAIN m_details \/ m_notice["_links"] # Null
                                          \/ m_details["_links"] # Null
    /\ m_result = NotCalled
    /\ CollectIdle
    /\ ExtractIdle
    /\ RedIdle

NextMerge == MergeNotice

SpecMerge == InitMerge /\ [][NextMerge]_vars

\* The payloads extract_notice_info is applied to: "_links" and at most two
\* of the keys it reads.
InitExtract ==
    /\ HttpIdle
    /\ RunIdle
    /\ x_notice \in
          {("_links" :> Null) @@ one @@ two :
              one \in {<<>>} \cup {(red_key(f) :> v) : f \in RedFields \ JoinedFields,
                                                       v \in PayloadValues},
              two \in {<<>>} \cup {(red_key(f) :> v) : f \in JoinedFields,
                                                       v \in PayloadValues}}
    /\ x_result = NotExtracted
    /\ CollectIdle
    /\ MergeIdle
    /\ RedIdle

NextExtract == ExtractNoticeInfo

SpecExtract == InitExtract /\ [][NextExtract]_vars

InitRed ==
    /\ HttpIdle
    /\ RunIdle
    /\ all_notices = <<>>
    /\ red_page = 1
    /\ get_full_details \in BOOLEAN
    /\ red_pc = "loop"
    /\ red_stop = "none"
    /\ red_total = 0
    /\ red_received = 0
    /\ red_requested = <<>>
    /\ CollectIdle
    /\ MergeIdle
    /\ ExtractIdle

NextRed == PageFails \/ PageWithoutList \/ PageEmpty \/ PageOfNotices

SpecRed == InitRed /\ [][NextRed]_vars

InitRun ==
    /\ HttpIdle
    /\ run_catalogue \in RunCatalogues
    /\ all_rows = <<>>
    /\ run_seen_ids = {}
    /\ country_no = 0
    /\ run_pc = "loop"
    /\ run_csv = NoCsv
    /\ run_raised = {}
    /\ run_called = <<>>
    /\ row_keys = <<>>
    /\ report_file = NoCsv
    /\ retried = <<>>
    /\ corrected_file = NoCsv
    /\ CollectIdle
    /\ MergeIdle
    /\ ExtractIdle
    /\ RedIdle

NextRun ==
    \/ CountryFetched
    \/ CountryRaised
    \/ FinalSave
    \/ VerifyScraping
    \/ ReportUnreadable
    \/ AllComplete
    \/ AutoRattrapage

SpecRun == InitRun /\ [][NextRun]_vars

(***************************************************************************)
(* Properties of scrape_yellow_notices.py                                  *)
(***************************************************************************)
Range(s) == {s[i] : i \in 1..Len(s)}

\* The entity ids of the catalogue notices that have one and whose age meets
\* the root segment.
ExpectedIds ==
    {api_entity_id(ref) :
        ref \in UNION {{<<g, k>> : k \in 1..catalogue[g].n} :
                         g \in {h \in 1..Len(catalogue) :
                                  /\ catalogue[h].with_id
                                  /\ catalogue[h].lo <= ROOT_AGE_MAX
                                  /\ catalogue[h].hi >= ROOT_AGE_MIN}}}

\* C1: at every point of a run of collect_notices the aggregated list holds
\* no two records with the same entity_id, whatever segments returned a notice.
C1_NoDuplicateEntityId ==
    Cardinality(Range(aggregated)) = Len(aggregated)

\* C1 witness: both halves of the root were fetched, the notice that both
\* return is in the list.
C1_Witness ==
    /\ runs = 1
    /\ {"age=0-60|sex=*", "age=61-120|sex=*"} \subseteq processed_segments
    /\ catalogue[3].n = 1
    /\ api_entity_id(<<3, 1>>) \in Range(aggregated)
    /\ Len(aggregated) > SEGMENT_THRESHOLD

\* C2: a run that started without a progress file and returned normally
\* holds a record for every catalogue notice with an entity_id and an age in
\* 0..120.
C2_EveryNoticeCollected ==
    (pc = "finished" /\ runs = 1) => ExpectedIds \subseteq Range(aggregated)

\* C2 witness: a first run returned after splitting by age and by sex, with
\* more records than one segment may hold.
C2_Witness ==
    /\ pc = "finished"
    /\ runs = 1
    /\ "age=120-120|sex=F" \in processed_segments
    /\ Len(aggregated) > SEGMENT_THRESHOLD
    /\ ExpectedIds = Range(aggregated)

\* C3: fetch_segment is called only for a total in 1..SEGMENT_THRESHOLD and
\* asks at most 2 pages; a segment over the threshold is never fetched.
C3_FetchUnderCap ==
    last_fetch # NoFetch =>
        /\ last_fetch.total \in 1..SEGMENT_THRESHOLD
        /\ last_fetch.pages \in 1..2

\* C3 witness: a segment of exactly SEGMENT_THRESHOLD results was fetched in
\* two pages.
C3_Witness ==
    /\ last_fetch.total = SEGMENT_THRESHOLD
    /\ last_fetch.pages = 2
    /\ label(last_fetch.segment) \in processed_segments

\* C4 (as claimed): a run restarted with the progress file in place writes
\* the records an uninterrupted run produces.
C4_ResumedOutputComplete ==
    (pc = "finished" /\ runs > 1) => Range(output_file.rows) = ExpectedIds

\* The strictly decreasing measure of a split: the age range, then the sex.
Measure(segment) ==
    2 * (segment.age_max - segment.age_min) + (IF segment.sex = None THEN 1 ELSE 0)

\* The nodes of the full tree of segments: the age ranges and, under each
\* single age, one segment per sex.
WalkBound ==
    (2 * (ROOT_AGE_MAX - ROOT_AGE_MIN + 1) - 1)
        + Len(SEX_SEGMENTS) * (ROOT_AGE_MAX - ROOT_AGE_MIN + 1)

\* Every segment pushed by a step is strictly narrower than the one popped.
Narrowing ==
    (pending # <<>> /\ Len(pending') >= Len(pending)) =>
        \A i \in Len(pending)..Len(pending') :
            /\ Measure(pending'[i]) < Measure(Popped)
            /\ Measure(pending'[i]) >= 0

\* C5: each split narrows the segment, a run makes a bounded number of
\* segment queries, and the loop ends (empty worklist or RequestError).
C5_WalkTerminates ==
    /\ [][pc = "loop" => Narrowing]_vars
    /\ [](queries <= WalkBound)
    /\ [](pc = "loop" => \A i \in 1..Len(pending) : Measure(pending[i]) <= Measure(RootSegment))
    /\ (pc = "loop") ~> (pc \in {"finished", "failed"})

\* C5 witness: a walk that split by age down to one age, then by sex, and
\* ended with an empty worklist.
C5_Witness ==
    /\ pc = "finished"
    /\ pending = <<>>
    /\ "age=120-120|sex=U" \in processed_segments
    /\ queries > 2 * Len(SEX_SEGMENTS)

\* What a payload supplies for an output field, as a string: the value under
\* the field's key, for a link field the href of the link under _links.
supplied(payload, field) ==
    IF field \in LinkFields
    THEN LET links == GetOr(payload, "_links", Null)
             rel == source_key(field)
         IN  IF links.t = "dict" /\ rel \in DOMAIN links.v /\ links.v[rel].t = "dict"
             THEN safe_get(links.v[rel].v, "href")
             ELSE ""
    ELSE safe_get(payload, source_key(field))

\* C6 (as claimed): every field of the record takes the detail payload's
\* value when present and non-empty, else the list entry's, else "".
C6_EitherPayload ==
    (m_result.called /\ ~m_result.raised) =>
        \A f \in OutputFieldSet :
            m_result.record[f] = Or(supplied(m_details, f), supplied(m_notice, f))

\* C6 (amended): only name, forename, date_of_birth, nationalities and sex
\* fall back to the list entry; entity_id comes from the list entry alone;
\* every other field comes from the detail payload alone.
C6_MergeByField ==
    (m_result.called /\ ~m_result.raised) =>
        /\ \A f \in {"name", "forename", "date_of_birth", "nationalities", "sex"} :
              m_result.record[f] = Or(supplied(m_details, f), supplied(m_notice, f))
        /\ m_result.record["entity_id"] =
              (IF "entity_id" \in DOMAIN m_notice THEN py_str(m_notice["entity_id"]) ELSE "")
        /\ \A f \in OutputFieldSet \ {"entity_id", "name", "forename", "date_of_birth",
                                        "nationalities", "sex"} :
              m_result.record[f] = supplied(m_details, f)

\* C6 witness: the detail payload has an empty sex_id, the list entry has
\* one, and the record takes the list entry's.
C6_Witness ==
    /\ m_result.called
    /\ ~m_result.raised
    /\ "sex_id" \in DOMAIN m_details
    /\ supplied(m_details, "sex") = ""
    /\ supplied(m_notice, "sex") = "a;b"
    /\ m_result.record["sex"] = "a;b"

(***************************************************************************)
(* Properties of main.py                                                   *)
(***************************************************************************)
\* C7 (as claimed): no two records of the list scrape_all_notices returns
\* have the same entity_id, whatever pages the API returns.
C7_RedNoDuplicateEntityId ==
    red_pc = "done" =>
        \A i, j \in 1..Len(all_notices) :
            i # j => all_notices[i]["entity_id"] # all_notices[j]["entity_id"]

\* C8 (as claimed): when no request fails the loop stops only on an empty
\* page or when the records collected reach the reported total, with one
\* record per notice received, so the result has as many records as the total.
C8_AsManyAsTotal ==
    (red_pc = "done" /\ red_stop # "failed") =>
        /\ red_stop \in {"empty", "reached"}
        /\ Len(all_notices) = red_received
        /\ Len(all_notices) = red_total

\* C8 (amended): pages are asked in order 1, 2, ...; one record is appended
\* per notice received; the loop goes on only while the records are fewer
\* than the reported total; when no request fails it stops on an empty page,
\* on a response without a notice list, or with at least as many records as
\* the total reported with the last page.
C8_StopsWhenReached ==
    /\ red_pc \in {"loop", "done"} =>
          /\ red_requested = [i \in 1..Len(red_requested) |-> i]
          /\ Len(all_notices) = red_received
    /\ (red_pc = "loop" /\ red_page > 1) => Len(all_notices) < red_total
    /\ (red_pc = "done" /\ red_stop # "failed") =>
          /\ red_stop \in {"empty", "nolist", "reached"}
          /\ red_stop = "reached" => Len(all_notices) >= red_total

\* C8 witness: two pages were asked, the second was empty, and the result
\* has fewer records than the total reported.
C8_Witness ==
    /\ red_pc = "done"
    /\ red_stop = "empty"
    /\ red_requested = <<1, 2>>
    /\ Len(all_notices) = 2
    /\ red_total = 5

\* The payload supplies no value for the field: key absent, null or empty.
no_value(notice, field) ==
    \/ red_key(field) \notin DOMAIN notice
    \/ notice[red_key(field)] \in {Null, Str(""), List(<<>>)}

\* C9 (as claimed): every field the payload supplies no value for is 'N/A'
\* in the record, and no field of the record is null.
C9_MissingIsNA ==
    x_result.called =>
        \A f \in RedFields :
            /\ no_value(x_notice, f) => x_result.record[f] = Str("N/A")
            /\ x_result.record[f] # Null

(***************************************************************************)
(* Properties of yellow_scraper.py                                         *)
(***************************************************************************)
\* The values of a column of the rows that are not empty, in order.
column(rows, field) ==
    LET filled(row) == row[field] # ""
        kept == SelectSeq(rows, filled)
    IN  [i \in 1..Len(kept) |-> kept[i][field]]

\* C10 (as claimed): the rows run accumulates over all country codes, sex
\* slices, age slices and birth-country queries contain no two rows with the
\* same entity_id.
C10_RunNoDuplicateEntityId ==
    \A i, j \in 1..Len(all_rows) :
        i # j => all_rows[i].entity_id # all_rows[j].entity_id

\* C10 (amended): no two rows of run have the same non-empty entity_id, and
\* no two have the same non-empty url: a notice that carries an entity_id or
\* a self link appears once, however many filters reach it.
C10_RunNoDuplicateIdentified ==
    /\ Cardinality(Range(column(all_rows, "entity_id")))
          = Len(column(all_rows, "entity_id"))
    /\ Cardinality(Range(column(all_rows, "url"))) = Len(column(all_rows, "url"))

\* C10 witness: every country was processed, and a notice with the two
\* nationalities AB and ZY, born in AB, reached by three filters, has a row.
C10_Witness ==
    /\ run_pc = "done"
    /\ run_catalogue[2].n = 1
    /\ run_catalogue[1].n > COUNTRY_LIMIT
    /\ \E i \in 1..Len(all_rows) :
          /\ all_rows[i].entity_id = "3002/1"
          /\ all_rows[i].nationality = "AB"

\* C11 (as claimed): auto_rattrapage fetches a country of the report again
\* if and only if the file held fewer rows of that nationality than the
\* total the API reported at verification.
C11_RetriedIffIncomplete ==
    run_pc = "retried" =>
        \A i \in 1..Len(report_file.rows) :
            (report_file.rows[i].country \in Range(retried))
                <=> (report_file.rows[i].local_count < report_file.rows[i].total_api)

\* C12 (as claimed): every country code for which the API holds more notices
\* than the CSV file holds rows is in the report of verify_scraping as
\* incomplete (missing > 0, coverage under 100), a country without any row
\* in the file included.
C12_IncompleteReported ==
    report_file.exists =>
        \A n \in 1..CountryCount :
            api_total(country_code(n)) > local_count(run_csv.rows, country_code(n))
                => \E i \in 1..Len(report_file.rows) :
                       /\ report_file.rows[i].country = country_code(n)
                       /\ report_file.rows[i].missing > 0
                       /\ report_file.rows[i].coverage < 100 * 10

\* The two-letter codes AA, AB, ..., AZ, BA, ..., ZZ.
CodesInOrder ==
    LET abc == <<"A", "B", "C", "D", "E", "F", "G", "H", "I", "J", "K", "L", "M",
                 "N", "O", "P", "Q", "R", "S", "T", "U", "V", "W", "X", "Y", "Z">>
    IN  [n \in 1..(26 * 26) |-> abc[((n - 1) \div 26) + 1] \o abc[((n - 1) % 26) + 1]]

\* C13: run calls smart_fetch_country once for each of the 676 codes AA..ZZ,
\* in order; a code whose processing raises is followed by the next code; the
\* rows kept are never dropped; and once the loop is over every code was
\* called and the CSV file holds the rows of all the codes that completed.
C13_EveryCountryCalledOnce ==
    /\ [](run_pc # "off" =>
            /\ run_called = SubSeq(CodesInOrder, 1, country_no)
            /\ run_raised \subseteq Range(run_called)
            /\ run_pc # "loop" =>
                  /\ run_called = CodesInOrder
                  /\ run_csv = [exists |-> TRUE, rows |-> all_rows])
    /\ [][/\ Len(all_rows') >= Len(all_rows)
          /\ SubSeq(all_rows', 1, Len(all_rows)) = all_rows
          /\ (run_pc = "loop" /\ country_no < 26 * 26) =>
                (run_pc' = "loop" /\ country_no' = country_no + 1)]_vars

\* C13 witness: the loop is over, the processing of AE raised, and the file
\* holds the rows of ZY, a code that came after it.
C13_Witness ==
    /\ run_pc = "done"
    /\ run_raised = {"AE"}
    /\ Len(run_called) = 26 * 26
    /\ \E i \in 1..Len(run_csv.rows) : run_csv.rows[i].nationality = "ZY"

\* C14 (as claimed): smart_fetch_country fetches the pages of a filter
\* combination by nationality (country, with or without sex and age slice)
\* only when its reported total is at most 160, a combination over 160 being
\* subdivided instead, and the age slices cover every age 0..120.
C14_FetchedUnderLimit ==
    /\ \A age \in 0..120 :
          \E age_min \in 0..LAST_AGE_MIN : age_min <= age /\ age <= age_min + 1
    /\ country_no >= 1 =>
          LET fetched == country_filters(country_code(country_no))
          IN  \A i \in 1..Len(fetched) :
                  fetched[i].nationality # None
                      => get_total_with_filters(fetched[i]) <= 160

(***************************************************************************)
(* Further properties of scrape_yellow_notices.py                          *)
(***************************************************************************)
\* The ages of a segment.
Ages(segment) == segment.age_min..segment.age_max

\* split(segment) is a partition of the segment: two non-empty, disjoint age
\* ranges cut at mid that cover the segment and keep its sex, when the segment
\* has several ages; the three sexes M, F, U of the same age, when it has one
\* age and no sex.
SplitIsPartition(segment) ==
    LET parts == split(segment).segments
        mid == (segment.age_min + segment.age_max) \div 2
    IN  /\ segment.age_min < segment.age_max =>
              /\ ~split(segment).raised
              /\ Len(parts) = 2
              /\ Ages(parts[1]) = segment.age_min..mid
              /\ Ages(parts[2]) = (mid + 1)..segment.age_max
              /\ Ages(parts[1]) # {} /\ Ages(parts[2]) # {}
              /\ Ages(parts[1]) \cap Ages(parts[2]) = {}
              /\ Ages(parts[1]) \cup Ages(parts[2]) = Ages(segment)
              /\ parts[1].sex = segment.sex /\ parts[2].sex = segment.sex
        /\ (segment.age_min = segment.age_max /\ segment.sex = None) =>
              /\ ~split(segment).raised
              /\ Len(parts) = 3
              /\ \A i \in 1..3 : Ages(parts[i]) = Ages(segment)
              /\ <<parts[1].sex, parts[2].sex, parts[3].sex>> = <<"M", "F", "U">>

\* C15: Segment.split is a partition, for every segment collect_notices holds
\* in pending, and age is split before sex: a segment with a sex set has a
\* single age.
C15_SplitIsPartition ==
    \A i \in 1..Len(pending) :
        /\ SplitIsPartition(pending[i])
        /\ pending[i].sex # None => pending[i].age_min = pending[i].age_max

\* C15 witness: both kinds of split were made: pending holds the lower half
\* 0..60 of the root and, last, the three sexes of the age 120.
C15_Witness ==
    /\ Len(pending) > 3
    /\ pending[1] = Segment(0, 60, None)
    /\ SubSeq(pending, Len(pending) - 2, Len(pending))
          = <<Segment(120, 120, "M"), Segment(120, 120, "F"), Segment(120, 120, "U")>>

\* The bodies that are valid JSON.
ValidJson == {"{}", "{\"total\": 3}", "[]"}

\* The outcome of the last attempt made.
LastOutcome == http_outcomes[Len(http_outcomes)]

\* C16: a call of http_get_json makes at most RETRY_LIMIT (5) attempts; every
\* attempt before the last one made ended with HTTPError or URLError and was
\* followed by a sleep; the call returns the parsed body of the first attempt
\* that succeeds, and nothing else; it raises RequestError when the 5th
\* attempt fails and, at once, when a body is not valid JSON.
C16_AtMostFiveAttempts ==
    http_pc # "off" =>
        /\ http_attempt \in 1..5
        /\ Len(http_outcomes) <= 5
        /\ \A i \in 1..(Len(http_outcomes) - 1) : http_outcomes[i] \in HttpErrors
        /\ http_sleeps = [i \in 1..(http_attempt - 1) |-> i]
        /\ http_pc = "try" =>
              /\ Len(http_outcomes) = http_attempt - 1
              /\ \A i \in 1..Len(http_outcomes) : http_outcomes[i] \in HttpErrors
        /\ http_pc # "try" => Len(http_outcomes) = http_attempt
        /\ http_pc = "returned" =>
              /\ LastOutcome \in ValidJson
              /\ http_result = [kind |-> "value", value |-> json_loads(LastOutcome).value]
        /\ (http_pc # "try" /\ LastOutcome \in ValidJson) => http_pc = "returned"
        /\ (http_pc # "try" /\ LastOutcome \in HttpErrors) =>
              /\ Len(http_outcomes) = 5
              /\ http_result = [kind |-> "raised", value |-> Str("RequestError")]
        /\ (http_pc # "try" /\ LastOutcome \in Bodies \ ValidJson) =>
              http_result = [kind |-> "raised", value |-> Str("RequestError")]

\* C16 witness: four attempts failed and were retried, and the fifth failed.
C16_Witness ==
    /\ http_pc = "raised"
    /\ Len(http_outcomes) = 5
    /\ LastOutcome \in HttpErrors
    /\ http_sleeps = <<1, 2, 3, 4>>

\* The segment popped has a single age and a fixed sex, and the API holds
\* more than 320 notices for it.
Unsplittable ==
    /\ InLoop
    /\ ~is_done(Popped)
    /\ Popped.age_min = Popped.age_max
    /\ Popped.sex # None
    /\ query_total(Popped) > 320

\* C17: when collect_notices gets the total of a segment with a single age
\* and a fixed sex and it exceeds 320, Segment.split raises RequestError and
\* the run stops, leaving the progress file and the CSV file as they are; the
\* progress file then holds the segments marked done; a run that failed
\* writes nothing more; the progress file is deleted only by a run that
\* completes.
C17_SplitFailureStops ==
    /\ [][(Unsplittable /\ err' # HttpFailed) =>
             /\ pc' = "failed"
             /\ err' = SplitFailed
             /\ processed_segments' = processed_segments
             /\ progress_file' = progress_file
             /\ output_file' = output_file]_vars
    /\ []((pc = "failed" /\ err = SplitFailed /\ processed_segments # {}) =>
             progress_file = [exists |-> TRUE, processed_segments |-> processed_segments])
    /\ [][pc = "failed" => (pc' = "loop" /\ output_file' = output_file
                              /\ progress_file' = progress_file)]_vars
    /\ [][(progress_file.exists /\ ~progress_file'.exists) => pc' = "finished"]_vars

\* C17 witness: the run stopped on the segment of age 120 and sex M, with
\* 321 notices, after the segment of age 120 and sex U was marked done; the
\* progress file holds the latter and no CSV file was written.
C17_Witness ==
    /\ pc = "failed"
    /\ err = SplitFailed
    /\ runs = 1
    /\ progress_file.exists
    /\ "age=120-120|sex=U" \in progress_file.processed_segments
    /\ "age=120-120|sex=M" \notin progress_file.processed_segments
    /\ ~output_file.exists

\* Every notice fetched for the segment popped was processed: it has no
\* entity_id, or its entity_id is in the seen_ids given.
AllProcessed(seen) ==
    LET raw_notices == fetch_segment(Popped, query_total(Popped)).notices
    IN  \A i \in 1..Len(raw_notices) :
            LET entity_id == py_str(GetOr(raw_notices[i], "entity_id", Str("")))
            IN  entity_id = "" \/ entity_id \in seen

\* C18: a label is added to processed_segments, and the progress file
\* rewritten with it, only in a loop body that found the total of the segment
\* to be 0 or that processed every notice fetched for it, without error and
\* without split; and a query is made only for a segment that is not
\* recorded as done.
C18_DoneOnlyWhenProcessed ==
    /\ [][processed_segments' # processed_segments =>
             /\ InLoop
             /\ processed_segments' = processed_segments \cup {label(Popped)}
             /\ progress_file' = [exists |-> TRUE,
                                  processed_segments |-> processed_segments']
             /\ pc' = "loop"
             /\ err' = err
             /\ pending' = SubSeq(pending, 1, Len(pending) - 1)
             /\ \/ query_total(Popped) = 0
                \/ /\ query_total(Popped) <= 320
                   /\ AllProcessed(seen_ids')]_vars
    /\ [][queries' = queries + 1 =>
             /\ InLoop
             /\ label(Popped) \notin processed_segments
             /\ ~progress_file.exists
                  \/ label(Popped) \notin progress_file.processed_segments]_vars
    /\ [](pc \in {"loop", "failed"} =>
             processed_segments = IF progress_file.exists
                                  THEN progress_file.processed_segments ELSE {})

\* C18 witness: in a second run the root segment was queried and split again,
\* and the segment of the ages 61..120, done in the first run, was skipped
\* without a query.
C18_Witness ==
    /\ runs = 2
    /\ pc = "loop"
    /\ queries = 1
    /\ pending = <<Segment(0, 60, None)>>
    /\ "age=61-120|sex=*" \in processed_segments
    /\ "age=0-120|sex=*" \notin processed_segments

(***************************************************************************)
(* Further properties of yellow_scraper.py                                 *)
(***************************************************************************)
\* C19 (as claimed): in run, whatever the number of country codes processed,
\* those that raised included, every key of seen_ids is the key of a row of
\* all_rows.
C19_SeenKeysHaveRows ==
    run_seen_ids \subseteq Range(row_keys)

====
